---- MODULE Spec2Model ----
(***************************************************************************)
(* Verification model of the session concurrency core of orbiton-agent:    *)
(*   - the Execution Gate      (agents/factory.py, class AgentSession)     *)
(*   - the Session Store       (state/session.py, class SessionManager)    *)
(*   - the Persistence Layer   (state/persistence.py, SessionPersistence)  *)
(*   - the Background Auto-Saver (state/persistence.py, class AutoSaver)   *)
(*   - the TUI integration     (console/tui.py, console/app_tui.py)        *)
(*   - the slash commands      (console/commands.py, CommandHandler)       *)
(*                                                                         *)
(* Nine specifications are defined over one set of variables:              *)
(*   SpecGate     - callers, interrupt(), reset() and close() on one       *)
(*                  AgentSession;                                          *)
(*   SpecSnapshot - one saver thread reading the SessionState while every  *)
(*                  SessionManager method runs;                            *)
(*   Spec         - the AutoSaver started and stopped, its threads, the    *)
(*                  files they write, I/O errors and the process's end;    *)
(*   SpecRestart  - the AutoSaver started, stopped and started again;      *)
(*   SpecApp      - ConsoleTUIApp.run from start to exit with the worker   *)
(*                  threads that call execute;                             *)
(*   SpecStore    - the SessionManager alone, called by one thread;        *)
(*   SpecFiles    - SessionPersistence saving, loading, deleting and       *)
(*                  exporting, called by one thread;                       *)
(*   SpecUI       - the TUI: each input is handled by a worker thread that *)
(*                  calls the store, the gate and the TUI's own methods;   *)
(*   SpecCommands - /history, /agent and /model of the CommandHandler in   *)
(*                  the classic console and in the TUI.                    *)
(***************************************************************************)
EXTENDS Integers, Sequences, FiniteSets, TLC

(***************************************************************************)
(* Bounds of the model.                                                    *)
(***************************************************************************)
\* number of callers of the gate (worker threads or coroutines)
NCallers == 2
\* total number of agent.run invocations explored
MaxRuns == 3

\* longest transcript explored (messages of one SessionState)
MaxMessages == 1
\* most tool executions in one SessionState
MaxTools == 1
\* the clock runs from 0 to MaxTime
MaxTime == 1
\* SessionState objects that ever exist (the initial one and those loaded)
MaxStates == 2
\* threads the AutoSaver spawns in one run (periodic and final ones)
MaxThreads == 2
\* SessionManager methods called in one run of SpecSnapshot or SpecStore
MaxCalls == 3
\* clock ticks per second: strftime("%Y%m%d_%H%M%S") drops the fraction
TicksPerSecond == 2
\* agent sessions created by /agent and /model in one run
MaxSessions == 2

Callers == 1..NCallers
\* user inputs handed to execute(); the agent answers input i with Response(i)
Inputs == {"A", "B"}

None == "None"

VARIABLES
    \* ---- AgentSession (agents/factory.py) ----
    mode,          \* how the callers reach the gate: "threads" | "tasks"
    executing,     \* AgentSession.executing
    interrupted,   \* AgentSession.interrupted
    loop_closed,   \* AgentSession._event_loop.is_closed()
    loop_thread,   \* the caller(s) whose run_until_complete is running the loop
    has_memory,    \* hasattr(agent, 'memory')
    memory,        \* len(agent.memory.messages)
    pc,            \* pc[c]: position of caller c inside execute / execute_async
    arg,           \* arg[c]: the user_input of caller c's current call
    result,        \* result[c]: what caller c's last call returned or raised
    runs,          \* number of agent.run invocations so far
    \* ---- SessionManager (state/session.py) ----
    now,           \* datetime.now()
    objs,          \* the SessionState objects, by identity
    session_state, \* SessionManager.session_state: index into objs
    mutator,       \* position inside the SessionManager method in progress
    log,           \* the add_message calls made on the current transcript
    got,           \* the latest query, if get_messages: what it returned
    ret,           \* the latest query, if another: name, argument, value
    seen,          \* every value a SessionState object has had (to_dict form)
    calls,         \* SessionManager methods called so far
    \* ---- AutoSaver and SessionPersistence (state/persistence.py) ----
    running,       \* AutoSaver.running
    threads,       \* the threads spawned by start() and stop(), in spawn order
    last_call,     \* the latest AutoSaver call and a bit flipped by every call
    disk,          \* history_dir: path -> the chunks of the file
    completed,     \* paths on which some save_session has returned
    alive,         \* the process is running
    \* ---- TUIApp and ConsoleTUIApp (console/tui.py, console/app_tui.py) ----
    task,          \* task[c]: position of the handling of input c
    history_messages, \* TUIApp.history_messages, each with the thread that
                   \* appended it
    status_text,   \* TUIApp.status_text, with the thread that assigned it
    last_status,   \* TUICallbackHandler._last_status
    debug,         \* ConsoleTUIApp.debug
    app            \* the application's agent session and what the
                   \* CommandHandler holds as self.app

gateVars == <<mode, executing, interrupted, loop_closed, loop_thread,
              has_memory, memory, pc, arg, result, runs>>

storeVars == <<now, objs, session_state, mutator, log, got, ret>>

saverVars == <<running, threads, last_call, disk, completed, alive>>

tuiVars == <<task, history_messages, status_text, last_status, debug, app>>

vars == <<gateVars, storeVars, saverVars, tuiVars, seen, calls>>

(***************************************************************************)
(* AgentSession                                                            *)
(***************************************************************************)

\* What a call can return or raise.
NoResult         == <<"none">>
Response(inp)    == <<"ok", inp>>                 \* agent.run's return value
AlreadyExecuting == <<"RuntimeError", "Agent is already executing">>
LoopRunning      == <<"RuntimeError", "This event loop is already running">>
LoopClosed       == <<"RuntimeError", "Event loop is closed">>
AgentFailed      == <<"Exception", "Agent execution failed">>
Interrupted      == <<"KeyboardInterrupt">>
Cancelled        == <<"CancelledError">>

\* The ways the awaited agent.run(user_input) can end.
Outcomes == {"return", "Exception", "KeyboardInterrupt", "CancelledError"}

\* The callers whose agent.run is in flight (suspended at the await).
InFlight == {c \in Callers : pc[c] = "awaiting"}

\* AgentSession.__init__
InitGate ==
    /\ mode \in {"threads", "tasks"}
    /\ executing = FALSE
    /\ interrupted = FALSE
    /\ loop_closed = FALSE
    /\ loop_thread = {}
    /\ has_memory \in BOOLEAN
    /\ memory = 0
    /\ pc = [c \in Callers |-> "idle"]
    /\ arg = [c \in Callers |-> None]
    /\ result = [c \in Callers |-> NoResult]
    /\ runs = 0

\* The guard of execute_async: `if self.executing: raise RuntimeError(...)`.
GateOpen == ~executing

\* execute_async from its first line to the await of agent.run: one step of
\* the coroutine (a coroutine is not interleaved with others between awaits).
\* The rejection is raised before the try block, so no finally runs for it.
execute_async_begin(c, inp) ==
    IF ~GateOpen
      THEN /\ pc' = [pc EXCEPT ![c] = "raised"]
           /\ result' = [result EXCEPT ![c] = AlreadyExecuting]
           /\ arg' = [arg EXCEPT ![c] = inp]
           /\ UNCHANGED <<executing, interrupted, memory, runs>>
      ELSE /\ executing' = TRUE
           /\ interrupted' = FALSE
           /\ pc' = [pc EXCEPT ![c] = "awaiting"]
           /\ arg' = [arg EXCEPT ![c] = inp]
           /\ result' = [result EXCEPT ![c] = NoResult]
           /\ runs' = runs + 1
           /\ memory' = IF has_memory THEN memory + 1 ELSE memory

\* A slip the finally block guards against: the flag reset on the success
\* path only.
ExecutingAfter_OnlyOnReturn(how) == how # "return"

\* The value of self.executing once execute_async has ended in way `how`:
\* the finally block runs on every path.
ExecutingAfter(how) == FALSE

\* execute_async from the end of agent.run to its own end: the return, the
\* two except clauses and the finally block.
execute_async_end(c, how) ==
    /\ pc[c] = "awaiting"
    /\ interrupted' = IF how = "KeyboardInterrupt" THEN TRUE ELSE interrupted
    /\ executing' = ExecutingAfter(how)
    /\ result' = [result EXCEPT ![c] =
                    CASE how = "return"            -> Response(arg[c])
                      [] how = "Exception"         -> AgentFailed
                      [] how = "KeyboardInterrupt" -> Interrupted
                      [] how = "CancelledError"    -> Cancelled]
    /\ pc' = [pc EXCEPT ![c] = IF how = "return" THEN "returned" ELSE "raised"]
    /\ UNCHANGED <<arg, memory, runs>>

\* A coroutine awaits session.execute_async(inp) (callers sharing one loop).
AsyncCall(c, inp) ==
    /\ mode = "tasks"
    /\ pc[c] = "idle"
    /\ runs < MaxRuns
    /\ execute_async_begin(c, inp)
    /\ UNCHANGED <<storeVars, saverVars, tuiVars, seen, calls>>
    /\ UNCHANGED <<mode, loop_closed, loop_thread, has_memory>>

AsyncEnd(c, how) ==
    /\ mode = "tasks"
    /\ execute_async_end(c, how)
    /\ UNCHANGED <<storeVars, saverVars, tuiVars, seen, calls>>
    /\ UNCHANGED <<mode, loop_closed, loop_thread, has_memory>>

\* A thread calls session.execute(inp):
\*   self._event_loop.run_until_complete(self.execute_async(user_input))
\* run_until_complete refuses a closed loop and a loop that is already
\* running; otherwise the calling thread runs the loop until the task ends.
execute(c, inp) ==
    /\ mode = "threads"
    /\ pc[c] = "idle"
    /\ runs < MaxRuns
    /\ arg' = [arg EXCEPT ![c] = inp]
    /\ IF loop_closed
         THEN /\ pc' = [pc EXCEPT ![c] = "raised"]
              /\ result' = [result EXCEPT ![c] = LoopClosed]
              /\ UNCHANGED loop_thread
         ELSE IF loop_thread # {}
         THEN /\ pc' = [pc EXCEPT ![c] = "raised"]
              /\ result' = [result EXCEPT ![c] = LoopRunning]
              /\ UNCHANGED loop_thread
         ELSE /\ pc' = [pc EXCEPT ![c] = "scheduled"]
              /\ result' = [result EXCEPT ![c] = NoResult]
              /\ loop_thread' = {c}
    /\ UNCHANGED <<storeVars, saverVars, tuiVars, seen, calls>>
    /\ UNCHANGED <<mode, executing, interrupted, loop_closed, has_memory,
                   memory, runs>>

\* The loop runs the first step of the task.
TaskBegin(c) ==
    /\ mode = "threads"
    /\ pc[c] = "scheduled"
    /\ execute_async_begin(c, arg[c])
    /\ UNCHANGED <<storeVars, saverVars, tuiVars, seen, calls>>
    /\ UNCHANGED <<mode, loop_closed, loop_thread, has_memory>>

\* The loop resumes the task when agent.run ends.
TaskEnd(c, how) ==
    /\ mode = "threads"
    /\ c \in loop_thread
    /\ execute_async_end(c, how)
    /\ UNCHANGED <<storeVars, saverVars, tuiVars, seen, calls>>
    /\ UNCHANGED <<mode, loop_closed, loop_thread, has_memory>>

\* run_until_complete stops the loop when the task is done and hands the
\* task's result or exception to the caller of execute.
ExecuteReturn(c) ==
    /\ mode = "threads"
    /\ c \in loop_thread
    /\ pc[c] \in {"returned", "raised"}
    /\ loop_thread' = {}
    /\ UNCHANGED <<storeVars, saverVars, tuiVars, seen, calls>>
    /\ UNCHANGED <<mode, executing, interrupted, loop_closed, has_memory,
                   memory, pc, arg, result, runs>>

\* The caller has its answer and may call again.
Again(c) ==
    /\ pc[c] \in {"returned", "raised"}
    /\ c \notin loop_thread
    /\ pc' = [pc EXCEPT ![c] = "idle"]
    /\ UNCHANGED <<storeVars, saverVars, tuiVars, seen, calls>>
    /\ UNCHANGED <<mode, executing, interrupted, loop_closed, loop_thread,
                   has_memory, memory, arg, result, runs>>

\* AgentSession.interrupt
\* the flag after interrupt(): `if self.executing: self.interrupted = True`
InterruptedAfter_Always(e, i) == TRUE
InterruptedAfter(e, i) == IF e THEN TRUE ELSE i

interrupt ==
    /\ interrupted' = InterruptedAfter(executing, interrupted)
    /\ UNCHANGED <<storeVars, saverVars, tuiVars, seen, calls>>
    /\ UNCHANGED <<mode, executing, loop_closed, loop_thread, has_memory,
                   memory, pc, arg, result, runs>>

\* AgentSession.reset
\* A reset that leaves the agent's memory as it is.
MemoryAfterReset_Kept(h, m) == m

\* len(agent.memory.messages) after
\*   if hasattr(self.agent, 'memory') and self.agent.memory:
\*       self.agent.memory.clear()
MemoryAfterReset(h, m) == IF h /\ m > 0 THEN 0 ELSE m

reset ==
    /\ memory' = MemoryAfterReset(has_memory, memory)
    /\ executing' = FALSE
    /\ interrupted' = FALSE
    /\ UNCHANGED <<storeVars, saverVars, tuiVars, seen, calls>>
    /\ UNCHANGED <<mode, loop_closed, loop_thread, has_memory, pc, arg,
                   result, runs>>

\* AgentSession.close: closes the loop unless it is closed already.
\* BaseEventLoop.close() raises RuntimeError on a running loop and leaves
\* it open.
close ==
    /\ loop_closed' = IF ~loop_closed /\ loop_thread = {}
                        THEN TRUE ELSE loop_closed
    /\ UNCHANGED <<storeVars, saverVars, tuiVars, seen, calls>>
    /\ UNCHANGED <<mode, executing, interrupted, loop_thread, has_memory,
                   memory, pc, arg, result, runs>>

NextGate ==
    \/ \E c \in Callers, inp \in Inputs : AsyncCall(c, inp)
    \/ \E c \in Callers, how \in Outcomes : AsyncEnd(c, how)
    \/ \E c \in Callers, inp \in Inputs : execute(c, inp)
    \/ \E c \in Callers : TaskBegin(c)
    \/ \E c \in Callers, how \in Outcomes : TaskEnd(c, how)
    \/ \E c \in Callers : ExecuteReturn(c)
    \/ \E c \in Callers : Again(c)
    \/ interrupt
    \/ reset
    \/ close


(***************************************************************************)
(* SessionState, SessionManager (state/session.py)                         *)
(***************************************************************************)

Roles == {"user", "agent"}
Contents == {"Hello"}
AgentTypes == {"react", "mcp"}
Models == {"claude-sonnet-4", "gpt-4"}
\* uuid4() values; the first component is the string's first 8 characters
Uuids == {<<"1a2b3c4d", "x">>, <<"1a2b3c4d", "y">>, <<"9f8e7d6c", "x">>}
\* the uuid of the SessionState made by SessionManager.__init__
FirstUuid == <<"1a2b3c4d", "x">>

\* the roles add_message is called with: those of a transcript and one
\* that is none of user, agent, system
RoleArgs == Roles \cup {"tool"}
\* get_messages' limit: None (<<>>) or an int (<<n>>); its offset: an int
Limits == {<<>>, <<0>>, <<1>>}
Offsets == {0, 1}
\* before the first get_messages call
NoCall == [limit |-> <<>>, offset |-> 0, messages |-> <<>>, called |-> FALSE]

\* before the first query
NoQuery == [op |-> "none", given |-> <<>>, value |-> <<>>]
\* get_context's max_tokens: None (<<>>) or an int (<<n>>)
MaxTokens == {<<>>, <<0>>, <<1>>, <<2>>}

\* list[n:] and list[:n] for n >= 0
From(list, n) == SubSeq(list, n + 1, Len(list))
UpTo(list, n) == SubSeq(list, 1, IF n < Len(list) THEN n ELSE Len(list))
\* `if limit:` is false for None and for 0
Truthy(limit) == limit # <<>> /\ limit[1] # 0

\* ConversationMessage(role, content) with timestamp = datetime.now()
ConversationMessage(role, content) ==
    [role |-> role, content |-> content, timestamp |-> now]

\* ToolExecution(...) with timestamp = datetime.now()
ToolExecution(tool_name) ==
    [tool_name |-> tool_name, execution_time |-> 1, timestamp |-> now]

\* SessionState(current_agent, current_model) with a fresh uuid
SessionState(id, agent_type, model) ==
    [session_id |-> id, created_at |-> now, updated_at |-> now,
     messages |-> <<>>, tool_executions |-> <<>>,
     current_agent |-> agent_type, current_model |-> model]

\* SessionState.to_dict: isoformat() keeps a datetime's value exactly
to_dict(st) ==
    [session_id |-> st.session_id, created_at |-> st.created_at,
     updated_at |-> st.updated_at, messages |-> st.messages,
     tool_executions |-> st.tool_executions,
     current_agent |-> st.current_agent, current_model |-> st.current_model]

\* The object the SessionManager holds.
Current == objs[session_state]


\* SessionManager.__init__
InitStore ==
    /\ now = 0
    /\ objs = <<[session_id |-> FirstUuid, created_at |-> 0, updated_at |-> 0,
                  messages |-> <<>>, tool_executions |-> <<>>,
                  current_agent |-> "react",
                  current_model |-> "claude-sonnet-4"]>>
    /\ session_state = 1
    /\ mutator = "idle"
    /\ log = <<>>
    /\ got = NoCall
    /\ ret = NoQuery
    /\ seen = {to_dict(objs[1])}
    /\ calls = 0

\* The store as SpecGate keeps it.
StoreIdle ==
    /\ now = 0
    /\ objs = <<>>
    /\ session_state = 1
    /\ mutator = "idle"
    /\ log = <<>>
    /\ got = NoCall
    /\ ret = NoQuery
    /\ seen = {}
    /\ calls = 0

\* The clock advances.
Tick ==
    /\ alive
    /\ now < MaxTime
    /\ now' = now + 1
    /\ UNCHANGED <<objs, session_state, mutator, log, got, ret>>
    /\ UNCHANGED <<gateVars, saverVars>>

\* list.append(x)
Appended_AtFront(list, x) == <<x>> \o list
Appended(list, x) == Append(list, x)

\* The current object with one field changed.
Store(field, value) == [objs EXCEPT ![session_state][field] = value]

\* add_message, first statement: self.session_state.messages.append(message)
add_message(role, content) ==
    /\ alive /\ mutator = "idle"
    /\ objs' = Store("messages",
                     Appended(Current.messages,
                              ConversationMessage(role, content)))
    /\ mutator' = "updated_at"
    /\ log' = Append(log, <<role, content>>)
    /\ UNCHANGED <<now, session_state, got, ret>>
    /\ UNCHANGED <<gateVars, saverVars>>

\* add_tool_execution, first statement: tool_executions.append(tool_execution)
add_tool_execution(tool_name) ==
    /\ alive /\ mutator = "idle"
    /\ Len(Current.tool_executions) < MaxTools
    /\ objs' = Store("tool_executions",
                     Appended(Current.tool_executions,
                              ToolExecution(tool_name)))
    /\ mutator' = "updated_at"
    /\ UNCHANGED <<now, session_state, log, got, ret>>
    /\ UNCHANGED <<gateVars, saverVars>>

\* clear_history, first statement: self.session_state.messages.clear()
clear_history ==
    /\ alive /\ mutator = "idle"
    /\ objs' = Store("messages", <<>>)
    /\ mutator' = "clear_tools"
    /\ log' = <<>>
    /\ UNCHANGED <<now, session_state, got, ret>>
    /\ UNCHANGED <<gateVars, saverVars>>

\* clear_history, second statement: self.session_state.tool_executions.clear()
clear_history_tools ==
    /\ alive /\ mutator = "clear_tools"
    /\ objs' = Store("tool_executions", <<>>)
    /\ mutator' = "updated_at"
    /\ UNCHANGED <<now, session_state, log, got, ret>>
    /\ UNCHANGED <<gateVars, saverVars>>

\* update_agent, first statement: self.session_state.current_agent = agent_type
update_agent(agent_type) ==
    /\ alive /\ mutator = "idle"
    /\ objs' = Store("current_agent", agent_type)
    /\ mutator' = "updated_at"
    /\ UNCHANGED <<now, session_state, log, got, ret>>
    /\ UNCHANGED <<gateVars, saverVars>>

\* update_model, first statement: self.session_state.current_model = model
update_model(model) ==
    /\ alive /\ mutator = "idle"
    /\ objs' = Store("current_model", model)
    /\ mutator' = "updated_at"
    /\ UNCHANGED <<now, session_state, log, got, ret>>
    /\ UNCHANGED <<gateVars, saverVars>>

\* The last statement of every mutator:
\*   self.session_state.updated_at = datetime.now()
set_updated_at_Skipped ==
    /\ alive /\ mutator = "updated_at"
    /\ mutator' = "idle"
    /\ UNCHANGED <<now, objs, session_state, log, got, ret>>
    /\ UNCHANGED <<gateVars, saverVars>>
set_updated_at ==
    /\ alive /\ mutator = "updated_at"
    /\ objs' = Store("updated_at", now)
    /\ mutator' = "idle"
    /\ UNCHANGED <<now, session_state, log, got, ret>>
    /\ UNCHANGED <<gateVars, saverVars>>

\* load_session_state(st) with st a new SessionState: the reference is
\* replaced, the object held before is left as it is.
load_session_state(id, agent_type, model) ==
    /\ alive /\ mutator = "idle"
    /\ Len(objs) < MaxStates
    /\ \A i \in DOMAIN objs : objs[i].session_id # id
    /\ objs' = Append(objs, SessionState(id, agent_type, model))
    /\ session_state' = Len(objs) + 1
    /\ log' = <<>>
    /\ UNCHANGED <<now, mutator, got, ret>>
    /\ UNCHANGED <<gateVars, saverVars>>

\* create_session(): self.session_state = SessionState(); return it.
\* The new state has a fresh uuid and the default agent and model.
create_session(id) ==
    /\ alive /\ mutator = "idle"
    /\ Len(objs) < MaxStates
    /\ \A i \in DOMAIN objs : objs[i].session_id # id
    /\ objs' = Append(objs, SessionState(id, "react", "claude-sonnet-4"))
    /\ session_state' = Len(objs) + 1
    /\ log' = <<>>
    /\ ret' = [op |-> "create_session", given |-> <<>>,
               value |-> SessionState(id, "react", "claude-sonnet-4")]
    /\ got' = NoCall
    /\ UNCHANGED <<now, mutator>>
    /\ UNCHANGED <<gateVars, saverVars>>

\* what get_messages(limit, offset) returns:
\*   messages = self.session_state.messages[offset:]
\*   if limit: messages = messages[:limit]
Returned_FromSecond(limit, offset) == From(Current.messages, offset + 1)
Returned(limit, offset) ==
    IF Truthy(limit)
        THEN UpTo(From(Current.messages, offset), limit[1])
        ELSE From(Current.messages, offset)

\* SessionManager.get_messages
get_messages(limit, offset) ==
    /\ alive /\ mutator = "idle"
    /\ got' = [limit |-> limit, offset |-> offset,
               messages |-> Returned(limit, offset), called |-> TRUE]
    /\ ret' = NoQuery
    /\ UNCHANGED <<now, objs, session_state, mutator, log>>
    /\ UNCHANGED <<gateVars, saverVars>>

\* The value `op(arg)` returned; the query changes nothing else.
Query(op, given, value) ==
    /\ alive /\ mutator = "idle"
    /\ ret' = [op |-> op, given |-> given, value |-> value]
    /\ got' = NoCall
    /\ UNCHANGED <<now, objs, session_state, mutator, log>>
    /\ UNCHANGED <<gateVars, saverVars>>

\* get_context: [{"role": msg.role, "content": msg.content} for each message]
Dicts(messages) ==
    [i \in DOMAIN messages |->
        [role |-> messages[i].role, content |-> messages[i].content]]

\* sum(len(msg["content"]) for msg in context)
RECURSIVE total_chars(_)
total_chars(context) ==
    IF context = <<>> THEN 0
    ELSE Len(Head(context).content) + total_chars(Tail(context))

\* while context and total_chars > budget: context.pop(0)
RECURSIVE Popped(_, _)
Popped(context, budget) ==
    IF context # <<>> /\ total_chars(context) > budget
        THEN Popped(Tail(context), budget)
        ELSE context

\* what get_context(max_tokens) returns; `if max_tokens:` guards the trimming
Context(max_tokens) ==
    IF Truthy(max_tokens)
        THEN Popped(Dicts(Current.messages), max_tokens[1] * 4)
        ELSE Dicts(Current.messages)

\* SessionManager.get_context
get_context(max_tokens) ==
    Query("get_context", max_tokens, Context(max_tokens))

\* sum(1 for msg in self.session_state.messages if msg.role == role)
RECURSIVE Counted(_, _)
Counted(messages, role) ==
    IF messages = <<>> THEN 0
    ELSE (IF Head(messages).role = role THEN 1 ELSE 0)
             + Counted(Tail(messages), role)

CountRole_Any(role) == Len(Current.messages)
CountRole(role) == Counted(Current.messages, role)

\* sum(tool.execution_time for tool in self.session_state.tool_executions)
RECURSIVE total_time(_)
total_time(tools) ==
    IF tools = <<>> THEN 0
    ELSE Head(tools).execution_time + total_time(Tail(tools))

\* what get_statistics() returns (every execution_time of the model is 1,
\* so that the mean is a whole number)
Statistics ==
    [session_id |-> Current.session_id,
     created_at |-> Current.created_at,
     updated_at |-> Current.updated_at,
     total_messages |-> Len(Current.messages),
     user_messages |-> CountRole("user"),
     agent_messages |-> CountRole("agent"),
     total_tool_executions |-> Len(Current.tool_executions),
     avg_tool_execution_time |->
         IF Len(Current.tool_executions) > 0
             THEN total_time(Current.tool_executions)
                      \div Len(Current.tool_executions)
             ELSE 0,
     current_agent |-> Current.current_agent,
     current_model |-> Current.current_model]

\* SessionManager.get_statistics
get_statistics == Query("get_statistics", <<>>, Statistics)


(***************************************************************************)
(* SessionPersistence, AutoSaver (state/persistence.py)                    *)
(***************************************************************************)

\* save_session's auto-generated file name:
\*   f"session_{session_id[:8]}_{created_at.strftime('%Y%m%d_%H%M%S')}.json"
AutoPath(st) == <<st.session_id[1], st.created_at \div TicksPerSecond>>

Paths == {<<u[1], s>> : u \in Uuids, s \in 0..(MaxTime \div TicksPerSecond)}

\* A file is written in two chunks: json.dump hands the text to a buffered
\* file, which reaches the disk in pieces and at the latest on close.
HeadChunk(doc) == <<"head", doc.session_id, doc.created_at, doc.updated_at,
               doc.messages>>
TailChunk(doc) == <<"tail", doc.tool_executions, doc.current_agent,
               doc.current_model>>
Hole == <<"hole">>

NoFile == [exists |-> FALSE, data |-> <<>>]

\* open(save_path, "w"): the file is created or truncated to length 0
Truncated == [exists |-> TRUE, data |-> <<>>]

\* A writer writes chunk number pos at its own file position.
WriteAt(file, pos, chunk) ==
    [exists |-> TRUE,
     data |-> [i \in 1..(IF pos > Len(file.data) THEN pos ELSE Len(file.data)) |->
                 IF i = pos THEN chunk
                 ELSE IF i <= Len(file.data) THEN file.data[i] ELSE Hole]]

\* json.load succeeds on the file's text.
IsDocument(file) ==
    /\ file.exists
    /\ Len(file.data) = 2
    /\ file.data[1][1] = "head"
    /\ file.data[2][1] = "tail"

\* json.load's value.
Document(file) ==
    [session_id |-> file.data[1][2], created_at |-> file.data[1][3],
     updated_at |-> file.data[1][4], messages |-> file.data[1][5],
     tool_executions |-> file.data[2][2], current_agent |-> file.data[2][3],
     current_model |-> file.data[2][4]]

\* The dict to_dict is building, before any field is read.
BlankDoc ==
    [session_id |-> <<>>, created_at |-> 0, updated_at |-> 0,
     messages |-> <<>>, tool_executions |-> <<>>,
     current_agent |-> "", current_model |-> ""]

\* The order in which to_dict reads the mutable fields.
ReadOrder == <<"updated_at", "messages", "tool_executions", "current_agent",
               "current_model">>
ListFields == {"messages", "tool_executions"}

\* What the call of auto_save in flight has produced.
NotReturned == <<"pending">>
ReturnedNone == <<"None">>
ReturnedPath(path) == <<"Path", path>>
Raised == <<"raised">>

\* A thread of the AutoSaver: kind "periodic" runs _auto_save_loop, kind
\* "final" runs _final_save. ref is its local session_state, doc the dict
\* under construction, k the number of fields read or chunks written, i
\* the position of the list comprehension, ret what auto_save produced.
Thread(kind, at) ==
    [kind |-> kind, pc |-> at, ref |-> 0, doc |-> BlankDoc, k |-> 0, i |-> 0,
     ret |-> NotReturned]

\* AutoSaver.__init__, an empty history_dir
InitSaver ==
    /\ running = FALSE
    /\ threads = <<>>
    /\ last_call = <<"none", 0>>
    /\ disk = [p \in Paths |-> NoFile]
    /\ completed = {}
    /\ alive = TRUE

\* A start() without its guard.
StartReturnsEarly_Never == FALSE

\* AutoSaver.start: `if self.running: return`
StartReturnsEarly == running

\* AutoSaver.start
start ==
    /\ alive
    /\ last_call' = <<"start", 1 - last_call[2]>>
    /\ IF StartReturnsEarly
         THEN UNCHANGED <<running, threads>>
         ELSE /\ running' = TRUE
              /\ threads' = Append(threads, Thread("periodic", "while"))
    /\ UNCHANGED <<disk, completed, alive>>
    /\ UNCHANGED <<gateVars, storeVars>>

\* A stop() that starts no final save.
WithFinalSave_None(ths) == ths

\* The threads after stop() has started its final save.
WithFinalSave(ths) == Append(ths, Thread("final", "snap"))

\* AutoSaver.stop: it joins no thread.
stop ==
    /\ alive
    /\ last_call' = <<"stop", 1 - last_call[2]>>
    /\ running' = FALSE
    /\ threads' = WithFinalSave(threads)
    /\ UNCHANGED <<disk, completed, alive>>
    /\ UNCHANGED <<gateVars, storeVars>>

\* Where a thread goes when auto_save has returned: the loop goes round,
\* _final_save ends.
AfterReturn(kind) == IF kind = "periodic" THEN "while" ELSE "done"

\* A thread that the exception ends.
AfterError_EndsThread(kind) == "done"

\* Where a thread goes when auto_save has raised; both callers catch it:
\*   except Exception: pass
AfterError(kind) == IF kind = "periodic" THEN "while" ELSE "done"

\* The thread when its call of auto_save is over, with value r.
Finished(th, r) ==
    [Thread(th.kind, IF r = Raised THEN "except" ELSE "returned")
       EXCEPT !.ret = r]

\* _auto_save_loop: `while self.running:`
loop_test(t) ==
    /\ alive
    /\ threads[t].kind = "periodic" /\ threads[t].pc = "while"
    /\ threads' = [threads EXCEPT ![t].pc = IF running THEN "sleep" ELSE "done"]
    /\ UNCHANGED <<running, last_call, disk, completed, alive>>
    /\ UNCHANGED <<gateVars, storeVars>>

\* _auto_save_loop: time.sleep(self.interval) returns; `if self.running:`
wake(t) ==
    /\ alive
    /\ threads[t].pc = "sleep"
    /\ threads' = [threads EXCEPT ![t].pc = IF running THEN "snap" ELSE "while"]
    /\ UNCHANGED <<running, last_call, disk, completed, alive>>
    /\ UNCHANGED <<gateVars, storeVars>>

\* session_state = self.session_manager.get_session_state(): a reference
get_session_state(t) ==
    /\ alive
    /\ threads[t].pc = "snap"
    /\ threads' = [threads EXCEPT ![t].pc = "auto_save",
                                  ![t].ref = session_state]
    /\ UNCHANGED <<running, last_call, disk, completed, alive>>
    /\ UNCHANGED <<gateVars, storeVars>>

\* An auto_save without its guard.
NothingToSave_Never(messages) == FALSE

\* auto_save: `if not session_state.messages: return None`
NothingToSave(messages) == messages = <<>>

\* auto_save up to the call of save_session
auto_save(t) ==
    /\ alive
    /\ threads[t].pc = "auto_save"
    /\ threads' = [threads EXCEPT ![t] =
          IF NothingToSave(objs[@.ref].messages)
            THEN Finished(@, ReturnedNone)
            ELSE [@ EXCEPT !.pc = "open"]]
    /\ UNCHANGED <<running, last_call, disk, completed, alive>>
    /\ UNCHANGED <<gateVars, storeVars>>

\* save_session up to `with open(save_path, "w", encoding="utf-8") as f:`
save_session_open(t) ==
    /\ alive
    /\ threads[t].pc = "open"
    /\ LET st == objs[threads[t].ref] IN
         /\ disk' = [disk EXCEPT ![AutoPath(st)] = Truncated]
         /\ threads' = [threads EXCEPT
                ![t].pc = "to_dict",
                ![t].doc = [BlankDoc EXCEPT !.session_id = st.session_id,
                                            !.created_at = st.created_at]]
    /\ UNCHANGED <<running, last_call, completed, alive>>
    /\ UNCHANGED <<gateVars, storeVars>>

\* SessionState.to_dict: the next read of the object. A list field is read
\* by a comprehension, one element per step, until the index passes the
\* list's current end.
to_dict_read(t) ==
    /\ alive
    /\ threads[t].pc = "to_dict"
    /\ LET th == threads[t]
           field == ReadOrder[th.k + 1]
           value == objs[th.ref][field]
           next == IF th.k + 1 = Len(ReadOrder)
                     THEN [th EXCEPT !.pc = "write", !.k = 0, !.i = 0]
                     ELSE [th EXCEPT !.k = @ + 1, !.i = 0]
       IN threads' = [threads EXCEPT ![t] =
            IF field \in ListFields
              THEN IF th.i < Len(value)
                     THEN [th EXCEPT !.doc[field] = Append(@, value[th.i + 1]),
                                     !.i = @ + 1]
                     ELSE next
              ELSE [next EXCEPT !.doc[field] = value]]
    /\ UNCHANGED <<running, last_call, disk, completed, alive>>
    /\ UNCHANGED <<gateVars, storeVars>>

\* A save that empties the transcript it has written.
AfterDump_Flushed(st) == [st EXCEPT !.messages = <<>>]

\* The SessionState object after json.dump(session_state.to_dict(), f):
\* to_dict builds new dicts and lists, the object is only read.
AfterDump(st) == st

\* json.dump(..., f): the next chunk reaches the file; after the last one
\* the file is closed and save_session returns save_path.
save_session_write(t) ==
    /\ alive
    /\ threads[t].pc = "write"
    /\ LET th == threads[t]
           path == AutoPath(th.doc)
       IN IF th.k = 0
            THEN /\ disk' = [disk EXCEPT ![path] = WriteAt(@, 1, HeadChunk(th.doc))]
                 /\ threads' = [threads EXCEPT ![t].k = 1]
                 /\ UNCHANGED completed
            ELSE /\ disk' = [disk EXCEPT ![path] = WriteAt(@, 2, TailChunk(th.doc))]
                 /\ threads' = [threads EXCEPT ![t] =
                       Finished(th, ReturnedPath(path))]
                 /\ completed' = completed \cup {path}
    /\ objs' = [objs EXCEPT ![threads[t].ref] = AfterDump(@)]
    /\ UNCHANGED <<running, last_call, alive>>
    /\ UNCHANGED <<now, session_state, mutator, log, got, ret>>
    /\ UNCHANGED gateVars

\* open() or a write raises OSError: the with block closes the file as it
\* is and the exception leaves auto_save.
save_session_raises(t) ==
    /\ alive
    /\ threads[t].pc \in {"open", "write"}
    /\ threads' = [threads EXCEPT ![t] = Finished(@, Raised)]
    /\ UNCHANGED <<running, last_call, disk, completed, alive>>
    /\ UNCHANGED <<gateVars, storeVars>>

\* auto_save's value is dropped by its caller.
auto_save_returned(t) ==
    /\ alive
    /\ threads[t].pc = "returned"
    /\ threads' = [threads EXCEPT ![t] = Thread(@.kind, AfterReturn(@.kind))]
    /\ UNCHANGED <<running, last_call, disk, completed, alive>>
    /\ UNCHANGED <<gateVars, storeVars>>

\* `except Exception: pass`
except_pass(t) ==
    /\ alive
    /\ threads[t].pc = "except"
    /\ threads' = [threads EXCEPT ![t] = Thread(@.kind, AfterError(@.kind))]
    /\ UNCHANGED <<running, last_call, disk, completed, alive>>
    /\ UNCHANGED <<gateVars, storeVars>>

\* The process ends (run() returns and the interpreter exits, or it is
\* killed): daemon threads stop wherever they are.
Exit ==
    /\ alive
    /\ alive' = FALSE
    /\ UNCHANGED <<running, threads, last_call, disk, completed>>
    /\ UNCHANGED <<gateVars, storeVars>>

\* The threads that are between the first read of to_dict and the end of
\* json.dump.
Saving(ths) == {t \in DOMAIN ths : ths[t].pc \in {"to_dict", "write"}}

\* History of the store: the values its SessionState objects have had, the
\* ones between two statements of a method included.
Observed == seen' = seen \cup {to_dict(objs'[i]) : i \in DOMAIN objs'}
Unobserved == UNCHANGED <<seen, calls, tuiVars>>

\* A SessionManager method is entered, or one goes on, called by another
\* component than the TUI.
Called == calls < MaxCalls /\ calls' = calls + 1 /\ UNCHANGED tuiVars
Continued == UNCHANGED <<calls, tuiVars>>

\* The gate as Spec keeps it.
GateIdle ==
    /\ mode = "threads"
    /\ executing = FALSE
    /\ interrupted = FALSE
    /\ loop_closed = FALSE
    /\ loop_thread = {}
    /\ has_memory = FALSE
    /\ memory = 0
    /\ pc = [c \in Callers |-> "idle"]
    /\ arg = [c \in Callers |-> None]
    /\ result = [c \in Callers |-> NoResult]
    /\ runs = 0


(***************************************************************************)
(* SessionPersistence called by the application's own thread               *)
(***************************************************************************)

\* datetime.isoformat(): seconds, and the fraction unless it is zero
isoformat_NoFraction(t) == <<"T", t \div TicksPerSecond>>
isoformat(t) ==
    IF t % TicksPerSecond = 0
        THEN <<"T", t \div TicksPerSecond>>
        ELSE <<"T", t \div TicksPerSecond, t % TicksPerSecond>>

\* datetime.fromisoformat
fromisoformat(text) ==
    text[2] * TicksPerSecond + (IF Len(text) = 3 THEN text[3] ELSE 0)

\* ConversationMessage.to_dict / from_dict
message_to_dict(msg) ==
    [role |-> msg.role, content |-> msg.content,
     timestamp |-> isoformat(msg.timestamp)]
message_from_dict(data) ==
    [role |-> data.role, content |-> data.content,
     timestamp |-> fromisoformat(data.timestamp)]

\* ToolExecution.to_dict / from_dict
tool_to_dict(tool) ==
    [tool_name |-> tool.tool_name, execution_time |-> tool.execution_time,
     timestamp |-> isoformat(tool.timestamp)]
tool_from_dict(data) ==
    [tool_name |-> data.tool_name, execution_time |-> data.execution_time,
     timestamp |-> fromisoformat(data.timestamp)]

\* What json.dump(session_state.to_dict()) writes: the fields of to_dict
\* with every datetime in its isoformat() text.
to_json(st) ==
    [session_id |-> st.session_id,
     created_at |-> isoformat(st.created_at),
     updated_at |-> isoformat(st.updated_at),
     messages |-> [i \in DOMAIN st.messages |-> message_to_dict(st.messages[i])],
     tool_executions |->
         [i \in DOMAIN st.tool_executions |->
             tool_to_dict(st.tool_executions[i])],
     current_agent |-> st.current_agent,
     current_model |-> st.current_model]

\* The file save_session leaves when nothing interrupts it.
Saved(st) ==
    WriteAt(WriteAt(Truncated, 1, HeadChunk(to_json(st))), 2,
            TailChunk(to_json(st)))

\* The keys a document on disk has been stripped of (by another program or
\* by hand); a file written by save_session lacks none.
Lacks(file) == IF "lacks" \in DOMAIN file THEN file.lacks ELSE {}

\* The keys from_dict reads with data[...]: at the top level, in a message
\* entry and in a tool execution entry. The others are read with data.get.
TopKeys == {"session_id", "created_at", "updated_at"}
MessageKeys == {"role", "content", "timestamp"}
ToolKeys == {"tool_name", "execution_time"}
OptionalKeys == {"messages", "current_agent"}
\* the keys the model strips: one of each kind
EditedKeys == {"session_id", "role", "tool_name", "messages"}

\* SessionState.from_dict(data) raises KeyError.
RaisesKeyError(data, lacks) ==
    \/ lacks \cap TopKeys # {}
    \/ /\ "messages" \notin lacks /\ data.messages # <<>>
       /\ lacks \cap MessageKeys # {}
    \/ /\ data.tool_executions # <<>>
       /\ lacks \cap ToolKeys # {}

\* SessionState.from_dict(data), data lacking the keys in lacks
from_dict(data, lacks) ==
    [session_id |-> data.session_id,
     created_at |-> fromisoformat(data.created_at),
     updated_at |-> fromisoformat(data.updated_at),
     messages |->
         IF "messages" \in lacks THEN <<>>
         ELSE [i \in DOMAIN data.messages |->
                  message_from_dict(data.messages[i])],
     tool_executions |->
         [i \in DOMAIN data.tool_executions |->
             tool_from_dict(data.tool_executions[i])],
     current_agent |->
         IF "current_agent" \in lacks THEN "react" ELSE data.current_agent,
     current_model |-> data.current_model]

\* How the body of load_session's try block ends on a file.
Ending(file) ==
    IF ~file.exists THEN "FileNotFoundError"
    ELSE IF ~IsDocument(file) THEN "JSONDecodeError"
    ELSE IF RaisesKeyError(Document(file), Lacks(file)) THEN "KeyError"
    ELSE "return"

\* except (FileNotFoundError, json.JSONDecodeError, KeyError)
Caught_NoKeyError == {"FileNotFoundError", "JSONDecodeError"}
Caught == {"FileNotFoundError", "JSONDecodeError", "KeyError"}

\* What load_session(path) produces: None (<<>>), a SessionState, or the
\* exception it lets through.
Loaded(file) ==
    IF Ending(file) = "return"
        THEN <<from_dict(Document(file), Lacks(file))>>
    ELSE IF Ending(file) \in Caught THEN <<>>
    ELSE <<"raised", Ending(file)>>

\* SessionPersistence.save_session(session_state) with the auto-generated
\* path, called with the manager's current state.
save_session ==
    /\ alive /\ mutator = "idle"
    /\ disk' = [disk EXCEPT ![AutoPath(Current)] = Saved(Current)]
    /\ completed' = completed \cup {AutoPath(Current)}
    /\ ret' = [op |-> "save_session", given |-> <<>>,
               value |-> AutoPath(Current)]
    /\ got' = NoCall
    /\ UNCHANGED <<now, objs, session_state, mutator, log>>
    /\ UNCHANGED <<running, threads, last_call, alive>>
    /\ UNCHANGED gateVars

\* SessionPersistence.load_session(path)
load_session(path) == Query("load_session", path, Loaded(disk[path]))

\* history_dir.glob(f"session_{session_id[:8]}_*.json")
Globbed(session_id) ==
    {path \in Paths : path[1] = session_id[1] /\ disk[path].exists}

\* SessionPersistence.delete_session(session_id): the first path the glob
\* yields is unlinked and True returned, or unlink raises OSError and False
\* is returned; with no match the loop body never runs.
delete_session(session_id) ==
    /\ alive /\ mutator = "idle"
    /\ \/ /\ Globbed(session_id) = {}
          /\ ret' = [op |-> "delete_session", given |-> session_id,
                     value |-> FALSE]
          /\ UNCHANGED disk
       \/ \E path \in Globbed(session_id) :
             \/ /\ disk' = [disk EXCEPT ![path] = NoFile]
                /\ ret' = [op |-> "delete_session", given |-> session_id,
                           value |-> TRUE]
             \/ /\ UNCHANGED disk
                /\ ret' = [op |-> "delete_session", given |-> session_id,
                           value |-> FALSE]
    /\ got' = NoCall
    /\ UNCHANGED <<now, objs, session_state, mutator, log>>
    /\ UNCHANGED <<running, threads, last_call, completed, alive>>
    /\ UNCHANGED gateVars

\* strftime('%Y-%m-%d %H:%M:%S') and strftime("%H:%M:%S"): whole seconds
strftime(t) == t \div TicksPerSecond

\* _format_markdown, the header: ten lines
Header(st) ==
    << <<"# Orbiton Agent Conversation">>,
       <<"">>,
       <<"**Session ID:**", st.session_id>>,
       <<"**Created:**", strftime(st.created_at)>>,
       <<"**Updated:**", strftime(st.updated_at)>>,
       <<"**Agent:**", st.current_agent>>,
       <<"**Model:**", st.current_model>>,
       <<"">>,
       <<"---">>,
       <<"">> >>

\* _format_markdown, one turn of `for msg in session_state.messages`: the
\* if / elif chain has no branch for a role other than the three.
MessageLines(msg) ==
    IF msg.role = "user"
        THEN << <<"## User", strftime(msg.timestamp)>>, <<"">>,
                <<msg.content>>, <<"">> >>
    ELSE IF msg.role = "agent"
        THEN << <<"## Agent", strftime(msg.timestamp)>>, <<"">>,
                <<msg.content>>, <<"">> >>
    ELSE IF msg.role = "system"
        THEN << <<"## System", strftime(msg.timestamp)>>, <<"">>,
                <<msg.content>>, <<"">> >>
    ELSE <<>>

\* _format_markdown, one turn of `for tool in session_state.tool_executions`
\* (the code fence is written ~~~ here)
ToolLines(tool) ==
    << <<"###", tool.tool_name, strftime(tool.timestamp)>>, <<"">>,
       <<"**Arguments:**">>, <<"~~~json">>, <<"{}">>, <<"~~~">>, <<"">>,
       <<"**Result:**", "...">>, <<"">>,
       <<"**Execution Time:**", tool.execution_time>>, <<"">> >>

\* The lines of a list's entries, one entry after the other.
RECURSIVE Lines(_, _)
Lines(list, kind) ==
    IF list = <<>> THEN <<>>
    ELSE (IF kind = "message" THEN MessageLines(Head(list))
                              ELSE ToolLines(Head(list)))
             \o Lines(Tail(list), kind)

\* SessionPersistence._format_markdown: the lines joined by "\n"
format_markdown(st) ==
    Header(st)
        \o Lines(st.messages, "message")
        \o (IF st.tool_executions # <<>>
               THEN << <<"---">>, <<"">>,
                       <<"## Tool Executions", Len(st.tool_executions)>>,
                       <<"">> >>
                        \o Lines(st.tool_executions, "tool")
               ELSE <<>>)

\* SessionPersistence.export_session(session_state, filename, format="md"):
\* the text written to the export file.
export_session ==
    Query("export_session", "md", format_markdown(Current))

\* A document in history_dir loses one key, at the hands of another program
\* or of the user: the input of load_session the application does not write.
file_edited(path, key) ==
    /\ alive
    /\ IsDocument(disk[path]) /\ Lacks(disk[path]) = {}
    /\ disk' = [disk EXCEPT ![path] =
                   [exists |-> TRUE, data |-> disk[path].data, lacks |-> {key}]]
    /\ UNCHANGED <<running, threads, last_call, completed, alive>>
    /\ UNCHANGED <<gateVars, storeVars>>

\* A document in history_dir is cut short: its text is no longer JSON.
file_cut(path) ==
    /\ alive
    /\ IsDocument(disk[path]) /\ Lacks(disk[path]) = {}
    /\ disk' = [disk EXCEPT ![path] =
                   [exists |-> TRUE, data |-> <<disk[path].data[1]>>]]
    /\ UNCHANGED <<running, threads, last_call, completed, alive>>
    /\ UNCHANGED <<gateVars, storeVars>>

(***************************************************************************)
(* CommandHandler (console/commands.py)                                    *)
(***************************************************************************)

\* The AgentSession made for the agent that AgentFactory.create_agent
\* returns for an agent type and config["llm"]["default_model"]; n tells the
\* objects apart.
Session(n, agent_type, model) ==
    [id |-> n, agent_type |-> agent_type, model |-> model]

\* The application after __init__. ConsoleApp hands itself to the
\* CommandHandler (wrapped = FALSE); ConsoleTUIApp hands it a TUIWrapper
\* whose attributes are copies of its own (wrapped = TRUE). agent_session is
\* the application's attribute, handler the attributes of the object the
\* CommandHandler calls self.app, created the number of sessions made, used
\* the session that executed the latest message and a bit flipped by every
\* message.
AppInit(wrapped) ==
    [wrapped |-> wrapped,
     agent_session |-> Session(0, "react", "claude-sonnet-4"),
     handler |-> [agent_session |-> Session(0, "react", "claude-sonnet-4"),
                  current_agent_type |-> "react",
                  current_model |-> "claude-sonnet-4"],
     created |-> 1,
     used |-> <<>>]

\* AgentFactory.create_agent: valid_types = ["react", "react-mcp"], any
\* other type raises ValueError
Creatable(agent_type) == agent_type \in {"react", "react-mcp"}

\* callback_handler=self.app.callback_handler, evaluated inside the `try`:
\* ConsoleApp has the attribute, the TUIWrapper has none and the
\* AttributeError is caught by `except Exception`.
HasCallbackHandler(a) == ~a.wrapped

\* The `try` block of _cmd_agent and _cmd_model reaches its assignment.
Created(a, agent_type) == HasCallbackHandler(a) /\ Creatable(agent_type)

\* self.app.agent_session = AgentSession(agent=agent, config=...): the
\* attribute of the CommandHandler's app, which is the application's own
\* attribute unless the app is the TUIWrapper.
Switched(a, session) ==
    [a EXCEPT !.handler.agent_session = session,
              !.agent_session = IF a.wrapped THEN @ ELSE session,
              !.created = @ + 1]

\* _cmd_agent with a type of ["react", "mcp"]: the type is recorded, then
\* the agent is created; `except Exception` reports a failure.
cmd_agent(agent_type) ==
    /\ alive
    /\ app.created <= MaxSessions
    /\ LET a == [app EXCEPT !.handler.current_agent_type = agent_type] IN
         app' = IF Created(a, agent_type)
                  THEN Switched(a, Session(app.created, agent_type,
                                           a.handler.current_model))
                  ELSE a
    /\ UNCHANGED <<task, history_messages, status_text, last_status, debug>>
    /\ UNCHANGED <<gateVars, storeVars, saverVars, seen, calls>>

\* _cmd_model with a model name: the name is recorded, then the agent is
\* created for self.app.current_agent_type.
cmd_model(model) ==
    /\ alive
    /\ app.created <= MaxSessions
    /\ LET a == [app EXCEPT !.handler.current_model = model] IN
         app' = IF Created(a, a.handler.current_agent_type)
                  THEN Switched(a, Session(app.created,
                                           a.handler.current_agent_type, model))
                  ELSE a
    /\ UNCHANGED <<task, history_messages, status_text, last_status, debug>>
    /\ UNCHANGED <<gateVars, storeVars, saverVars, seen, calls>>

\* _process_message: response = self.agent_session.execute(message), the
\* attribute being the application's.
agent_session_execute ==
    /\ alive
    /\ app' = [app EXCEPT !.used =
                  <<app.agent_session, IF @ = <<>> THEN 0 ELSE 1 - @[2]>>]
    /\ UNCHANGED <<task, history_messages, status_text, last_status, debug>>
    /\ UNCHANGED <<gateVars, storeVars, saverVars, seen, calls>>

\* _cmd_history, the table: one row per message with its time, its role and
\* its content (cut after 80 characters, more than any content here has)
Rows(messages) ==
    [i \in DOMAIN messages |->
        <<strftime(messages[i].timestamp), messages[i].role,
          messages[i].content>>]

\* _cmd_history: limit is int(args[0]) when args[0] is a number, else None;
\*   messages = self.app.session_manager.get_messages(limit=limit)
\* An empty list is shown as the line "No conversation history".
cmd_history(limit) == Query("/history", limit, Rows(Returned(limit, 0)))


(***************************************************************************)
(* TUIApp and ConsoleTUIApp: an input from the Enter key to its answer     *)
(***************************************************************************)

\* The threads that touch the TUI: the thread that runs the UI's event
\* loop, and the worker threads asyncio.to_thread gives to on_input.
UIThread == "ui"
Worker == "worker"

\* No input has been entered as the c-th one yet.
NoTask == [at |-> "none", text |-> None]

\* TUIApp.__init__, TUICallbackHandler.__init__, ConsoleTUIApp.__init__
TUIIdle ==
    /\ task = [c \in Callers |-> NoTask]
    /\ history_messages = <<>>
    /\ status_text = <<"", UIThread>>
    /\ last_status = None
    /\ debug = FALSE
    /\ app = AppInit(TRUE)

\* The same, started with or without --debug.
InitTUI ==
    /\ task = [c \in Callers |-> NoTask]
    /\ history_messages = <<>>
    /\ status_text = <<"", UIThread>>
    /\ last_status = None
    /\ debug \in BOOLEAN
    /\ app = AppInit(TRUE)

\* add_user_message, add_agent_message, add_error_message and
\* add_warning_message: self.history_messages.append(msg), on the thread of
\* the caller (app.invalidate() only asks the loop to redraw).
add_to_history(kind, c, by) ==
    Append(history_messages, [kind |-> kind, of |-> c, by |-> by])

\* set_status: self.status_text = text, on the thread of the caller
set_status(text, by) == <<text, by>>

\* clear_status: self.status_text = "", on the thread of the caller
clear_status(by) == <<"", by>>

\* The position of input c.
At(c, at) == [task EXCEPT ![c].at = at]

\* except Exception catches RuntimeError and Exception; KeyboardInterrupt
\* and asyncio.CancelledError derive from BaseException only.
IsException(res) == res[1] \in {"RuntimeError", "Exception"}

\* handle_enter, on the UI thread: the input is shown and a task is created
\* for _handle_input. Inputs are entered one after the other.
handle_enter(c, inp) ==
    /\ alive
    /\ task[c].at = "none"
    /\ \A b \in Callers : b < c => task[b].at # "none"
    /\ history_messages' = add_to_history("user", c, UIThread)
    /\ task' = [task EXCEPT ![c] = [at |-> "created", text |-> inp]]
    /\ UNCHANGED <<status_text, last_status, debug, app>>
    /\ UNCHANGED <<gateVars, storeVars, saverVars, seen, calls>>

\* _handle_input up to its await: asyncio.to_thread(self.on_input, text)
\* starts a worker thread that runs _handle_user_input.
handle_input(c) ==
    /\ alive
    /\ task[c].at = "created"
    /\ task' = At(c, "thread")
    /\ UNCHANGED <<history_messages, status_text, last_status, debug, app>>
    /\ UNCHANGED <<gateVars, storeVars, saverVars, seen, calls>>

\* _handle_user_input, on the worker: the text is no command, so
\* session_manager.add_message(role="user", content=text)
handle_user_input(c) ==
    /\ task[c].at = "thread"
    /\ add_message("user", task[c].text)
    /\ task' = At(c, "tracked")
    /\ UNCHANGED <<history_messages, status_text, last_status, debug, app>>
    /\ UNCHANGED <<seen, calls>>

\* _process_message, on the worker, up to the call of execute:
\* self.tui.set_status("Processing...")
process_message(c) ==
    /\ alive
    /\ task[c].at = "tracked" /\ mutator = "idle"
    /\ status_text' = set_status("Processing...", Worker)
    /\ task' = At(c, "execute")
    /\ UNCHANGED <<history_messages, last_status, debug, app>>
    /\ UNCHANGED <<gateVars, storeVars, saverVars, seen, calls>>

\* response = self.agent_session.execute(message)
process_message_execute(c) ==
    /\ alive
    /\ task[c].at = "execute"
    /\ execute(c, task[c].text)

\* TUICallbackHandler.on_llm_start, called by the agent while it runs, that
\* is on the worker whose run_until_complete runs the session's loop.
on_llm_start(c) ==
    /\ alive
    /\ pc[c] = "awaiting" /\ c \in loop_thread
    /\ last_status # "thinking"
    /\ last_status' = "thinking"
    /\ status_text' = set_status("Thinking...", Worker)
    /\ UNCHANGED <<task, history_messages, debug, app>>
    /\ UNCHANGED <<gateVars, storeVars, saverVars, seen, calls>>

\* TUICallbackHandler.on_llm_end
on_llm_end(c) ==
    /\ alive
    /\ pc[c] = "awaiting" /\ c \in loop_thread
    /\ last_status = "thinking"
    /\ last_status' = None
    /\ status_text' = clear_status(Worker)
    /\ UNCHANGED <<task, history_messages, debug, app>>
    /\ UNCHANGED <<gateVars, storeVars, saverVars, seen, calls>>

\* The call of execute by worker c is over.
Executed(c) ==
    /\ task[c].at = "execute"
    /\ pc[c] \in {"returned", "raised"}
    /\ c \notin loop_thread

\* A test that any outcome of execute passes.
IsResponse_Any(res) == TRUE

\* `if response and isinstance(response, str):`, reached when execute has
\* returned
IsResponse(res) == res[1] = "ok"

\* _process_message after execute returned a non-empty string:
\* session_manager.add_message(role="agent", content=response)
process_message_response(c) ==
    /\ Executed(c) /\ IsResponse(result[c])
    /\ add_message("agent", result[c])
    /\ task' = At(c, "answered")
    /\ UNCHANGED <<history_messages, status_text, last_status, debug, app>>
    /\ UNCHANGED <<seen, calls>>

\* ... then self.tui.add_agent_message(response); self.tui.clear_status()
process_message_answer(c) ==
    /\ alive
    /\ task[c].at = "answered" /\ mutator = "idle"
    /\ history_messages' = add_to_history("agent", c, Worker)
    /\ status_text' = clear_status(Worker)
    /\ task' = At(c, "done")
    /\ UNCHANGED <<last_status, debug, app>>
    /\ UNCHANGED <<gateVars, storeVars, saverVars, seen, calls>>

\* _process_message, `except KeyboardInterrupt:` add_warning_message,
\* clear_status, agent_session.interrupt()
process_message_interrupted(c) ==
    /\ alive
    /\ Executed(c) /\ pc[c] = "raised" /\ result[c] = Interrupted
    /\ history_messages' = add_to_history("warning", c, Worker)
    /\ status_text' = clear_status(Worker)
    /\ interrupted' = InterruptedAfter(executing, interrupted)
    /\ task' = At(c, "done")
    /\ UNCHANGED <<last_status, debug, app>>
    /\ UNCHANGED <<mode, executing, loop_closed, loop_thread, has_memory,
                   memory, pc, arg, result, runs>>
    /\ UNCHANGED <<storeVars, saverVars, seen, calls>>

\* _process_message, `except Exception as e:` add_error_message,
\* clear_status, and `if self.debug: raise`
process_message_failed(c) ==
    /\ alive
    /\ Executed(c) /\ pc[c] = "raised" /\ IsException(result[c])
    /\ history_messages' = add_to_history("error", c, Worker)
    /\ status_text' = clear_status(Worker)
    /\ task' = At(c, IF debug THEN "raised" ELSE "done")
    /\ UNCHANGED <<last_status, debug, app>>
    /\ UNCHANGED <<gateVars, storeVars, saverVars, seen, calls>>

\* An exception that no except clause of _process_message names leaves
\* on_input: the worker ends and the future of to_thread holds the exception.
process_message_raises(c) ==
    /\ alive
    /\ Executed(c) /\ pc[c] = "raised"
    /\ ~IsException(result[c]) /\ result[c] # Interrupted
    /\ task' = At(c, "raised")
    /\ UNCHANGED <<history_messages, status_text, last_status, debug, app>>
    /\ UNCHANGED <<gateVars, storeVars, saverVars, seen, calls>>

\* _handle_input resumed by the UI loop with the exception of on_input:
\* `except Exception as e: self.add_error_message(...)`; any other exception
\* leaves the coroutine and ends the UI loop's task.
handle_input_except(c) ==
    /\ alive
    /\ task[c].at = "raised"
    /\ IF IsException(result[c])
         THEN /\ history_messages' = add_to_history("error", c, UIThread)
              /\ task' = At(c, "done")
         ELSE /\ task' = At(c, "escaped")
              /\ UNCHANGED history_messages
    /\ UNCHANGED <<status_text, last_status, debug, app>>
    /\ UNCHANGED <<gateVars, storeVars, saverVars, seen, calls>>

\* handle_escape, on the UI thread:
\*   self.set_status("Interrupted by user", style="warning")
\*   # TODO: Add interrupt logic
handle_escape ==
    /\ alive
    /\ status_text' = set_status("Interrupted by user", UIThread)
    /\ UNCHANGED <<task, history_messages, last_status, debug, app>>
    /\ UNCHANGED <<gateVars, storeVars, saverVars, seen, calls>>

\* The room the model leaves for another thread.
Room == Len(threads) < MaxThreads

\* The room the model leaves for another message.
MessageRoom == Len(Current.messages) < MaxMessages

\* One periodic saver thread reads while every SessionManager method runs.
NextSnapshot ==
    \/ Tick /\ Unobserved
    \/ \E r \in Roles, c \in Contents :
          MessageRoom /\ add_message(r, c) /\ Called /\ Observed
    \/ add_tool_execution("search_web") /\ Called /\ Observed
    \/ clear_history /\ Called /\ Observed
    \/ clear_history_tools /\ Continued /\ Observed
    \/ \E a \in AgentTypes : update_agent(a) /\ Called /\ Observed
    \/ \E m \in Models : update_model(m) /\ Called /\ Observed
    \/ set_updated_at /\ Continued /\ Observed
    \/ \E id \in Uuids :
          load_session_state(id, "react", "claude-sonnet-4") /\ Called /\ Observed
    \/ start /\ Unobserved
    \/ \E t \in DOMAIN threads : loop_test(t) /\ Unobserved
    \/ \E t \in DOMAIN threads : wake(t) /\ Unobserved
    \/ \E t \in DOMAIN threads : get_session_state(t) /\ Unobserved
    \/ \E t \in DOMAIN threads : auto_save(t) /\ Unobserved
    \/ \E t \in DOMAIN threads : save_session_open(t) /\ Unobserved
    \/ \E t \in DOMAIN threads : to_dict_read(t) /\ Unobserved
    \/ \E t \in DOMAIN threads : save_session_write(t) /\ Unobserved
    \/ \E t \in DOMAIN threads : auto_save_returned(t) /\ Unobserved

\* The AutoSaver started and stopped while messages are appended, with I/O
\* errors and the end of the process.
NextSaver ==
    \/ MessageRoom /\ add_message("user", "Hello") /\ Unobserved
    \/ set_updated_at /\ Unobserved
    \/ Room /\ start /\ Unobserved
    \/ Room /\ stop /\ Unobserved
    \/ \E t \in DOMAIN threads : loop_test(t) /\ Unobserved
    \/ \E t \in DOMAIN threads : wake(t) /\ Unobserved
    \/ \E t \in DOMAIN threads : get_session_state(t) /\ Unobserved
    \/ \E t \in DOMAIN threads : auto_save(t) /\ Unobserved
    \/ \E t \in DOMAIN threads : save_session_open(t) /\ Unobserved
    \/ \E t \in DOMAIN threads : to_dict_read(t) /\ Unobserved
    \/ \E t \in DOMAIN threads : save_session_write(t) /\ Unobserved
    \/ \E t \in DOMAIN threads : auto_save_returned(t) /\ Unobserved
    \/ \E t \in DOMAIN threads : save_session_raises(t) /\ Unobserved
    \/ \E t \in DOMAIN threads : except_pass(t) /\ Unobserved
    \/ Exit /\ Unobserved

\* Room for one thread more: start, stop and start again.
RoomToRestart == Len(threads) < MaxThreads + 1

\* The AutoSaver started, stopped and started again.
NextRestart ==
    \/ MessageRoom /\ add_message("user", "Hello") /\ Unobserved
    \/ set_updated_at /\ Unobserved
    \/ RoomToRestart /\ start /\ Unobserved
    \/ RoomToRestart /\ stop /\ Unobserved
    \/ \E t \in DOMAIN threads : loop_test(t) /\ Unobserved
    \/ \E t \in DOMAIN threads : wake(t) /\ Unobserved
    \/ \E t \in DOMAIN threads : get_session_state(t) /\ Unobserved
    \/ \E t \in DOMAIN threads : auto_save(t) /\ Unobserved
    \/ \E t \in DOMAIN threads : save_session_open(t) /\ Unobserved
    \/ \E t \in DOMAIN threads : to_dict_read(t) /\ Unobserved
    \/ \E t \in DOMAIN threads : save_session_write(t) /\ Unobserved
    \/ \E t \in DOMAIN threads : auto_save_returned(t) /\ Unobserved

\* ConsoleTUIApp.run up to tui.run(): `if save_history: self.auto_saver.start()`
run_enter ==
    /\ last_call[1] = "none"
    /\ start

\* ConsoleTUIApp.run, the finally block: self.auto_saver.stop(). It is
\* reached with the saver started or, save_history being off, not started.
run_finally ==
    /\ last_call[1] # "stop"
    /\ stop

\* AgentSession.__del__: self.close(), once run() has returned and the
\* session is unreachable. run() itself never calls close().
finalizer ==
    /\ last_call[1] = "stop"
    /\ close

\* The interpreter exits after run() has returned; whether the finalizer has
\* run by then is not determined by the program.
process_exit ==
    /\ last_call[1] = "stop"
    /\ Exit

\* The application: run() from start to exit, worker threads calling
\* execute, the saver's threads on a transcript that stays empty.
NextApp ==
    \/ run_enter /\ Unobserved
    \/ \E c \in Callers, inp \in Inputs : alive /\ execute(c, inp)
    \/ \E c \in Callers : alive /\ TaskBegin(c)
    \/ \E c \in Callers, how \in Outcomes : alive /\ TaskEnd(c, how)
    \/ \E c \in Callers : alive /\ ExecuteReturn(c)
    \/ \E c \in Callers : alive /\ Again(c)
    \/ run_finally /\ Unobserved
    \/ alive /\ finalizer
    \/ process_exit /\ Unobserved
    \/ \E t \in DOMAIN threads : loop_test(t) /\ Unobserved
    \/ \E t \in DOMAIN threads : wake(t) /\ Unobserved
    \/ \E t \in DOMAIN threads : get_session_state(t) /\ Unobserved
    \/ \E t \in DOMAIN threads : auto_save(t) /\ Unobserved
    \/ \E t \in DOMAIN threads : auto_save_returned(t) /\ Unobserved

\* Room for one message more: a transcript in which order shows.
StoreRoom == Len(Current.messages) < MaxMessages + 1

\* The SessionManager alone, called by one thread while the clock runs.
NextStore ==
    \/ Tick /\ Unobserved
    \/ \E r \in RoleArgs, c \in Contents :
          StoreRoom /\ add_message(r, c) /\ Called /\ Observed
    \/ add_tool_execution("search_web") /\ Called /\ UNCHANGED seen
    \/ clear_history /\ Called /\ UNCHANGED seen
    \/ clear_history_tools /\ Unobserved
    \/ \E a \in AgentTypes : update_agent(a) /\ Called /\ UNCHANGED seen
    \/ \E m \in Models : update_model(m) /\ Called /\ UNCHANGED seen
    \/ set_updated_at /\ Unobserved
    \/ \E id \in Uuids :
          load_session_state(id, "react", "claude-sonnet-4")
              /\ Called /\ UNCHANGED seen
    \/ \E limit \in Limits, offset \in Offsets :
          get_messages(limit, offset) /\ Called /\ UNCHANGED seen
    \/ \E max_tokens \in MaxTokens :
          get_context(max_tokens) /\ Called /\ UNCHANGED seen
    \/ get_statistics /\ Called /\ UNCHANGED seen
    \/ \E id \in Uuids : create_session(id) /\ Called /\ UNCHANGED seen

\* SessionPersistence called from one thread on the sessions of a
\* SessionManager.
NextFiles ==
    \/ Tick /\ Unobserved
    \/ \E r \in {"user", "tool"} :
          MessageRoom /\ add_message(r, "Hello") /\ Called /\ UNCHANGED seen
    \/ add_tool_execution("search_web") /\ Called /\ UNCHANGED seen
    \/ set_updated_at /\ Unobserved
    \/ create_session(<<"1a2b3c4d", "y">>) /\ Called /\ UNCHANGED seen
    \/ save_session /\ Called /\ UNCHANGED seen
    \/ \E path \in Paths : load_session(path) /\ Unobserved
    \/ \E path \in Paths, key \in EditedKeys :
          file_edited(path, key) /\ Unobserved
    \/ \E path \in Paths : file_cut(path) /\ Unobserved
    \/ \E id \in {FirstUuid, <<"1a2b3c4d", "y">>} :
          delete_session(id) /\ Unobserved
    \/ export_session /\ Unobserved

(***************************************************************************)
(* Specifications                                                          *)
(***************************************************************************)

\* The commands of the console, entered between messages.
NextCommands ==
    \/ Tick /\ Unobserved
    \/ \E r \in Roles, c \in Contents :
          StoreRoom /\ add_message(r, c) /\ Unobserved
    \/ set_updated_at /\ Unobserved
    \/ \E limit \in Limits : cmd_history(limit) /\ Unobserved
    \/ \E a \in AgentTypes : cmd_agent(a)
    \/ \E m \in Models : cmd_model(m)
    \/ agent_session_execute

\* The TUI: inputs are entered, each is handled by its own worker thread.
NextUI ==
    \/ \E c \in Callers : handle_enter(c, "A")
    \/ \E c \in Callers : handle_input(c)
    \/ \E c \in Callers : handle_user_input(c)
    \/ set_updated_at /\ Unobserved
    \/ \E c \in Callers : process_message(c)
    \/ \E c \in Callers : process_message_execute(c)
    \/ \E c \in Callers : TaskBegin(c)
    \/ \E c \in Callers : on_llm_start(c)
    \/ \E c \in Callers : on_llm_end(c)
    \/ \E c \in Callers, how \in Outcomes : TaskEnd(c, how)
    \/ \E c \in Callers : ExecuteReturn(c)
    \/ \E c \in Callers : process_message_response(c)
    \/ \E c \in Callers : process_message_answer(c)
    \/ \E c \in Callers : process_message_interrupted(c)
    \/ \E c \in Callers : process_message_failed(c)
    \/ \E c \in Callers : process_message_raises(c)
    \/ \E c \in Callers : handle_input_except(c)
    \/ handle_escape

\* The session as SpecGate starts it.
InitSession == InitGate /\ StoreIdle /\ InitSaver /\ TUIIdle

\* The application with its store and its saver constructed.
Init == GateIdle /\ InitStore /\ InitSaver /\ TUIIdle

\* ConsoleApp.__init__ or ConsoleTUIApp.__init__
InitCommands ==
    /\ GateIdle /\ InitStore /\ InitSaver
    /\ task = [c \in Callers |-> NoTask]
    /\ history_messages = <<>>
    /\ status_text = <<"", UIThread>>
    /\ last_status = None
    /\ debug = FALSE
    /\ app \in {AppInit(w) : w \in BOOLEAN}

\* ConsoleTUIApp.__init__
InitUI == GateIdle /\ InitStore /\ InitSaver /\ InitTUI

\* The persistence layer called from one thread.
SpecFiles == Init /\ [][NextFiles]_vars

\* The store alone.
SpecStore == Init /\ [][NextStore]_vars

\* The gate alone: the store and the saver stay as constructed.
SpecGate == InitSession /\ [][NextGate]_vars

\* The saver's reads against the store's writes; the gate stays idle.
SpecSnapshot == Init /\ [][NextSnapshot]_vars

\* The saver's threads and the history directory; the gate stays idle.
Spec == Init /\ [][NextSaver]_vars

\* The saver restarted; the gate stays idle.
SpecRestart == Init /\ [][NextRestart]_vars

\* The application from run() to the end of the process.
SpecApp == Init /\ [][NextApp]_vars

\* The store and the commands that read and change it.
SpecCommands == InitCommands /\ [][NextCommands]_vars

\* The TUI, the gate and the store.
SpecUI == InitUI /\ [][NextUI]_vars

(***************************************************************************)
(* Claims about the Execution Gate (checked under SpecGate)                *)
(***************************************************************************)

\* Caller c enters the gate in this step.
Calls(c) == pc[c] = "idle" /\ pc'[c] # "idle"

\* The coroutine of caller c runs its first step in this step.
Begins(c) ==
    /\ \/ mode = "tasks" /\ pc[c] = "idle"
       \/ pc[c] = "scheduled"
    /\ pc'[c] # pc[c]

\* C1: a call of execute made while executing is true fails in that very
\* step with the 'Agent is already executing' error, invokes no agent.run,
\* leaves executing, interrupted and every other call as they were; and a
\* call whose agent.run returns gets the response to its own input.
C1_RejectedWhileExecuting ==
    /\ [][\A c \in Callers :
            (Calls(c) /\ executing) =>
               /\ pc'[c] = "raised"
               /\ result'[c] = AlreadyExecuting
               /\ runs' = runs
               /\ executing' = executing /\ interrupted' = interrupted
               /\ \A d \in Callers \ {c} :
                     pc'[d] = pc[d] /\ result'[d] = result[d]]_vars
    /\ [](\A c \in Callers : pc[c] = "returned" => result[c] = Response(arg[c]))

\* C2: at most one agent.run is in flight, and executing is true whenever
\* one is in flight.
C2_SingleFlight ==
    /\ Cardinality(InFlight) <= 1
    /\ (InFlight # {} => executing)

\* C3: an accepted call has executing = TRUE and interrupted = FALSE when it
\* invokes the agent; when the agent call ends (return, exception,
\* KeyboardInterrupt, cancellation) executing is FALSE; and a coroutine that
\* begins while executing is FALSE is accepted.
C3_FlagsAroundRun ==
    [][\A c \in Callers :
         /\ (pc[c] # "awaiting" /\ pc'[c] = "awaiting")
               => (executing' /\ ~interrupted')
         /\ (pc[c] = "awaiting" /\ pc'[c] # "awaiting") => ~executing'
         /\ (Begins(c) /\ ~executing) => pc'[c] = "awaiting"]_vars

\* C3 witness: one call has ended by an exception and a later call has been
\* accepted and is in flight.
C3_Witness ==
    \E c, d \in Callers :
        /\ c # d
        /\ pc[c] = "raised" /\ result[c] \in {AgentFailed, Cancelled, Interrupted}
        /\ pc[d] = "awaiting" /\ executing
        /\ runs = 2

\* C13: when the agent call in flight is cancelled, the call ends with
\* interrupted = TRUE and the cancellation itself reaches the caller.
C13_CancellationSetsInterrupted ==
    [][\A c \in Callers :
         (pc[c] = "awaiting" /\ result'[c] = Cancelled) =>
            /\ pc'[c] = "raised"
            /\ interrupted']_vars

\* C14: interrupt() raises the interrupted flag exactly when a call is
\* executing; when none is, it changes nothing.  In both cases executing
\* keeps its value and every call in flight stays where it is.
C14_InterruptOnlyFlags ==
    [][interrupt =>
         /\ executing => interrupted'
         /\ ~executing => UNCHANGED vars
         /\ executing' = executing
         /\ InFlight' = InFlight
         /\ UNCHANGED <<pc, result, loop_thread>>]_vars

C14_Witness ==
    /\ executing /\ interrupted
    /\ \E c \in Callers : pc[c] = "awaiting" /\ result[c] = NoResult

\* C15: the session's one event loop stays open until close(); a close()
\* call on an open loop closes it, whatever else the session is doing, and
\* a close() call on a closed loop changes nothing.
C15_CloseClosesOnce ==
    /\ ~loop_closed => ENABLED (close /\ loop_closed')
    /\ loop_closed => ENABLED (close /\ UNCHANGED vars)

(***************************************************************************)
(* Claims about the AutoSaver's snapshot (checked under SpecSnapshot)      *)
(***************************************************************************)

\* C4: the dict a saver thread writes equals the value a SessionState had at
\* one single instant: its fields never come from different states.
C4_NoTornSnapshot ==
    \A t \in DOMAIN threads :
        threads[t].pc = "write" => threads[t].doc \in seen

(***************************************************************************)
(* Claims about the AutoSaver and the history directory (checked under     *)
(* Spec, C7 under SpecRestart)                                             *)
(***************************************************************************)

\* start() is called in this step; stop() is called in this step.
StartCalled == last_call' # last_call /\ last_call'[1] = "start"
StopCalled == last_call' # last_call /\ last_call'[1] = "stop"

\* The periodic threads; those of them that are alive and will save without
\* another call of start(): past the test of running, or before it with
\* running true.
Periodic == {t \in DOMAIN threads : threads[t].kind = "periodic"}
AbleToSave ==
    {t \in Periodic :
        \/ threads[t].pc \in {"snap", "auto_save", "open", "to_dict", "write"}
        \/ threads[t].pc \in {"while", "sleep", "returned", "except"} /\ running}

\* C5: once a save to a path has completed, the file at that path is a
\* complete document at every later instant (the process may stop at any
\* of them).
C5_CompleteDocumentOnDisk ==
    \A p \in completed : IsDocument(disk[p])

\* C6: start() called while running is true spawns no thread and leaves
\* running true, and changes nothing else.
C6_StartWhileRunning ==
    [][(StartCalled /\ running) =>
          /\ threads' = threads
          /\ running' = TRUE
          /\ UNCHANGED <<disk, completed, alive, storeVars>>]_vars

\* C6 witness: start() has been called twice and nothing else; there is one
\* thread, the periodic one.
C6_Witness ==
    /\ last_call = <<"start", 0>>
    /\ running
    /\ Len(threads) = 1
    /\ Periodic = {1}

\* C7: at most one periodic task is alive and able to save.
C7_OnePeriodicTask == Cardinality(AbleToSave) <= 1

\* C8: stop() sets running to false and starts exactly one final save as a
\* thread of its own, which has not run when stop() returns; no other thread
\* and no file changes in the step; and whatever the threads are doing, the
\* process can end.
C8_StopIsDetached ==
    /\ [][StopCalled =>
            /\ running' = FALSE
            /\ Len(threads') = Len(threads) + 1
            /\ threads'[Len(threads')] = Thread("final", "snap")
            /\ \A t \in DOMAIN threads : threads'[t] = threads[t]
            /\ UNCHANGED <<disk, completed, alive, storeVars>>]_vars
    /\ [](alive => ENABLED Exit)

\* C8 witness: stop() was called after start(), and the process has ended
\* while the final save was between open() and the end of json.dump.
C8_Witness ==
    /\ last_call[1] = "stop"
    /\ ~running /\ ~alive
    /\ Periodic # {}
    /\ \E t \in DOMAIN threads :
          threads[t].kind = "final" /\ threads[t].pc \in {"to_dict", "write"}

\* C9: a save that raises changes nothing of the store, of the gate or of
\* the process; the exception is caught in the thread, which changes no
\* other thread; the periodic thread goes back to its loop test, the final
\* thread ends.
C9_FailureSwallowed ==
    [][\A t \in DOMAIN threads :
         /\ (threads'[t].pc = "except" /\ threads[t].pc # "except") =>
               /\ threads'[t].kind = threads[t].kind
               /\ \A u \in DOMAIN threads \ {t} : threads'[u] = threads[u]
               /\ UNCHANGED <<storeVars, gateVars, running, disk, alive>>
         /\ (threads[t].pc = "except" /\ threads'[t].pc # "except") =>
               /\ threads'[t].pc =
                     IF threads[t].kind = "periodic" THEN "while" ELSE "done"
               /\ \A u \in DOMAIN threads \ {t} : threads'[u] = threads[u]
               /\ UNCHANGED <<storeVars, gateVars, running, disk, alive>>]_vars

\* C9 witness: a save has failed (a file is left incomplete and no thread is
\* writing) and the periodic thread, running still true, is in a later round
\* about to open the file again.
C9_Witness ==
    /\ alive /\ running
    /\ Saving(threads) = {}
    /\ \E p \in Paths : disk[p].exists /\ ~IsDocument(disk[p])
    /\ \E t \in Periodic : threads[t].pc = "open"
    /\ \A t \in DOMAIN threads : threads[t].pc # "except"

\* C10: auto_save of a SessionState with no message returns None in one step
\* that touches no file; with a message it goes on to save_session, and
\* what save_session returns is the path of that SessionState, written.
C10_AutoSave ==
    [][\A t \in DOMAIN threads :
         /\ (threads[t].pc = "auto_save" /\ threads'[t] # threads[t]) =>
               IF objs[threads[t].ref].messages = <<>>
                 THEN /\ threads'[t].pc = "returned"
                      /\ threads'[t].ret = ReturnedNone
                      /\ disk' = disk /\ completed' = completed
                 ELSE threads'[t].pc = "open"
         /\ (threads[t].pc = "write" /\ threads'[t].pc = "returned") =>
               LET path == AutoPath(objs[threads[t].ref]) IN
                 /\ threads'[t].ret = ReturnedPath(path)
                 /\ disk'[path].exists
                 /\ disk'[path].data[2] = TailChunk(threads[t].doc)
                 /\ path \in completed']_vars

\* C10 witness: one call of auto_save has returned None and, a message
\* added, another has returned the path it wrote.
C10_Witness ==
    \E t, u \in DOMAIN threads :
        /\ threads[t].pc = "returned" /\ threads[t].ret = ReturnedNone
        /\ threads[u].pc = "returned"
        /\ threads[u].ret = ReturnedPath(AutoPath(Current))
        /\ disk[AutoPath(Current)].exists

\* start() and then stop() have been called, once each; a save has
\* completed; and either every thread has ended or the process has.
AfterStop ==
    /\ last_call[1] = "stop"
    /\ Len(threads) = 2
    /\ threads[1].kind = "periodic" /\ threads[2].kind = "final"
    /\ completed # {}
    /\ \/ ~alive
       \/ \A t \in DOMAIN threads : threads[t].pc = "done"

\* The files of the history directory.
Files == {p \in Paths : disk[p].exists}

\* s is an initial part of r.
IsPrefix(s, r) == Len(s) <= Len(r) /\ \A i \in 1..Len(s) : s[i] = r[i]

\* C11: the saves of one session all go to one path, so that after start,
\* an appended message, a completed periodic save and stop there is exactly
\* one file in the history directory, a complete document that holds
\* messages of the session.
C11_OneDocumentAfterStop ==
    AfterStop =>
        /\ Files = {AutoPath(Current)}
        /\ \A p \in Files :
              /\ IsDocument(disk[p])
              /\ Document(disk[p]).messages # <<>>
              /\ IsPrefix(Document(disk[p]).messages, Current.messages)

(***************************************************************************)
(* Claims about the application's shutdown (checked under SpecApp)         *)
(***************************************************************************)

\* C12: the event loop is closed only after stop() has been called, and
\* when the process has ended after run(), stop() has been called and the
\* event loop is closed.
C12_StopThenClose ==
    /\ loop_closed => last_call[1] = "stop"
    /\ ~alive => (last_call[1] = "stop" /\ loop_closed)


(***************************************************************************)
(* Claims about the SessionManager (SpecStore)                             *)
(***************************************************************************)

\* The (role, content) pairs of a list of messages, in the list's order.
Transcript(messages) ==
    [i \in DOMAIN messages |-> <<messages[i].role, messages[i].content>>]

\* C16: get_messages() returns the messages of the add_message calls made,
\* in the order of the calls, and no step of the SessionManager's methods
\* makes the session's updated_at smaller.
C16_CallOrder ==
    [][/\ get_messages(<<>>, 0) => Transcript(got'.messages) = log
       /\ session_state' = session_state =>
             objs'[session_state].updated_at >= Current.updated_at]_vars

C16_Witness ==
    /\ got.called /\ got.limit = <<>> /\ got.offset = 0
    /\ Len(got.messages) = 2
    /\ got.messages[1].role # got.messages[2].role
    /\ got.messages[1].timestamp < got.messages[2].timestamp
    /\ Current.updated_at > Current.created_at

\* C17: no SessionState has updated_at before created_at, every statement
\* that changes the session's content or settings leaves the method with
\* its stamp still to come, and the stamp sets updated_at to the time it
\* is made.
C17_UpdatedAtRefreshed ==
    [][/\ \A i \in DOMAIN objs : objs[i].updated_at >= objs[i].created_at
       /\ \A i \in DOMAIN objs' : objs'[i].updated_at >= objs'[i].created_at
       /\ (mutator = "idle" /\ session_state' = session_state /\ objs' # objs)
             => mutator' # "idle"
       /\ (mutator # "idle" /\ mutator' = "idle")
             => objs'[session_state].updated_at = now']_vars

C17_Witness ==
    /\ mutator = "idle"
    /\ Current.updated_at = now /\ now > Current.created_at
    /\ Current.tool_executions # <<>>
    /\ Current.current_model # "claude-sonnet-4"

C19_InvalidRoleRejected ==
    [][\A c \in Contents :
         add_message("tool", c) =>
            /\ objs'[session_state].messages = Current.messages
            /\ objs'[session_state].updated_at = Current.updated_at
            /\ mutator' = "idle"]_vars

\* C20: get_messages(limit, offset) returns the messages from position
\* offset on, at most limit of them whenever a limit is given (0 included),
\* and changes nothing of the session state.
C20_LimitCaps ==
    [][\A limit \in Limits, offset \in Offsets :
         get_messages(limit, offset) =>
            /\ IsPrefix(got'.messages, From(Current.messages, offset))
            /\ limit # <<>> => Len(got'.messages) <= limit[1]
            /\ limit = <<>> => got'.messages = From(Current.messages, offset)
            /\ UNCHANGED <<objs, session_state>>]_vars

\* s is what is left of r after some of its first entries are dropped.
IsSuffix(s, r) ==
    /\ Len(s) <= Len(r)
    /\ \A i \in 1..Len(s) : s[i] = r[Len(r) - Len(s) + i]

\* C21: get_context(max_tokens) returns the role/content form of a suffix
\* of the messages, in their order; when max_tokens is given (0 included)
\* the contents returned hold at most 4 * max_tokens characters or nothing
\* is returned; the stored messages stay as they are.
C21_ContextBudget ==
    [][\A max_tokens \in MaxTokens :
         get_context(max_tokens) =>
            /\ IsSuffix(ret'.value, Dicts(Current.messages))
            /\ max_tokens # <<>> =>
                  \/ total_chars(ret'.value) <= 4 * max_tokens[1]
                  \/ ret'.value = <<>>
            /\ UNCHANGED <<objs, session_state>>]_vars

\* The positions of the messages with a given role.
WithRole(role) ==
    {i \in DOMAIN Current.messages : Current.messages[i].role = role}

\* C22: get_statistics() reports the session's own counts, so with both
\* lists empty, as clear_history() leaves them, it reports zero total, user
\* and agent messages, zero tool executions and mean time 0; an add_message
\* on the empty transcript makes the count 1 and is followed by the stamp.
C22_ClearedStatistics ==
    [][/\ get_statistics =>
             /\ ret'.value.total_messages = Len(Current.messages)
             /\ ret'.value.user_messages = Cardinality(WithRole("user"))
             /\ ret'.value.agent_messages = Cardinality(WithRole("agent"))
             /\ ret'.value.total_tool_executions = Len(Current.tool_executions)
             /\ (Current.messages = <<>> /\ Current.tool_executions = <<>>)
                   => /\ ret'.value.total_messages = 0
                      /\ ret'.value.user_messages = 0
                      /\ ret'.value.agent_messages = 0
                      /\ ret'.value.total_tool_executions = 0
                      /\ ret'.value.avg_tool_execution_time = 0
       /\ clear_history_tools =>
             /\ objs'[session_state].messages = <<>>
             /\ objs'[session_state].tool_executions = <<>>
             /\ mutator' = "updated_at"
       /\ \A r \in Roles, c \in Contents :
             (add_message(r, c) /\ Current.messages = <<>>) =>
                /\ Len(objs'[session_state].messages) = 1
                /\ mutator' = "updated_at"
       /\ set_updated_at => objs'[session_state].updated_at = now']_vars

\* get_statistics() called after clear_history() has emptied and stamped a
\* session in which a message had been added.
C22_Witness ==
    /\ ret.op = "get_statistics"
    /\ session_state = 1 /\ Len(objs) = 1
    /\ \E d \in seen : d.messages # <<>>
    /\ ret.value.total_messages = 0
    /\ ret.value.total_tool_executions = 0
    /\ ret.value.updated_at > ret.value.created_at
    /\ Current.messages = <<>> /\ Current.tool_executions = <<>>
    /\ mutator = "idle"

\* C23: the session_id and the created_at of the session a SessionManager
\* holds change in load_session_state steps only.
C23_IdentityOnlyByLoad ==
    [][(\/ objs'[session_state'].session_id # Current.session_id
        \/ objs'[session_state'].created_at # Current.created_at)
          => \E id \in Uuids, a \in AgentTypes, m \in Models :
                load_session_state(id, a, m)]_vars


(***************************************************************************)
(* Claims about SessionPersistence (SpecFiles)                             *)
(***************************************************************************)

Unloadable(file) ==
    \/ ~file.exists
    \/ ~IsDocument(file)
    \/ Lacks(file) \cap TopKeys # {}
    \/ /\ Lacks(file) \cap MessageKeys # {}
       /\ "messages" \notin Lacks(file) /\ Document(file).messages # <<>>
    \/ /\ Lacks(file) \cap ToolKeys # {}
       /\ Document(file).tool_executions # <<>>

\* C25: load_session(path) on a missing file, on a file that is not JSON
\* or on a document lacking a required key (top level, message entry or
\* tool execution entry) returns None, raises nothing and changes nothing.
C25_LoadReturnsNone ==
    [][(ret'.op = "load_session" /\ load_session(ret'.given))
          => /\ Unloadable(disk[ret'.given]) => ret'.value = <<>>
             /\ UNCHANGED <<objs, session_state, disk, mutator, now>>]_vars

\* load_session has returned None for a document whose message entry has
\* no "role" key.
C25_Witness ==
    /\ ret.op = "load_session" /\ ret.value = <<>>
    /\ IsDocument(disk[ret.given])
    /\ Lacks(disk[ret.given]) = {"role"}
    /\ Document(disk[ret.given]).messages # <<>>

\* The files a step removes; the documents of a session.
Removed == {path \in Paths : disk[path].exists /\ ~disk'[path].exists}
DocumentsOf(session_id) ==
    {path \in Paths :
        IsDocument(disk[path]) /\ Document(disk[path]).session_id = session_id}

\* C26: delete_session(session_id) removes at most one file, a document it
\* removes is one of the session with that id, it returns True exactly when
\* it has removed a file, and False when that session has no document.
C26_DeletesOwnDocument ==
    [][(ret'.op = "delete_session" /\ delete_session(ret'.given))
          => /\ Cardinality(Removed) <= 1
             /\ \A path \in Removed :
                   IsDocument(disk[path])
                      => Document(disk[path]).session_id = ret'.given
             /\ ret'.value = (Removed # {})
             /\ DocumentsOf(ret'.given) = {} => ret'.value = FALSE]_vars

\* The role markers of the markdown export, and the lines that carry one.
Marker(role) ==
    IF role = "user" THEN "## User"
    ELSE IF role = "agent" THEN "## Agent"
    ELSE IF role = "system" THEN "## System"
    ELSE "## " \o role
IsHeading(line) == line[1] \in {Marker(r) : r \in RoleArgs \cup {"system"}}
Headings(doc) == SelectSeq(doc, IsHeading)
ToolSections(doc) == {i \in DOMAIN doc : doc[i][1] = "## Tool Executions"}

\* C27: the markdown export is the header with the session id, then every
\* message in order under the marker of its role, then one Tool Executions
\* section if and only if there are tool executions, after every message.
C27_MarkdownOrder ==
    [][(ret'.op = "export_session" /\ export_session)
          => LET doc == ret'.value
                 heads == Headings(ret'.value)
             IN  /\ doc[3] = <<"**Session ID:**", Current.session_id>>
                 /\ Len(heads) = Len(Current.messages)
                 /\ \A i \in DOMAIN heads :
                       heads[i][1] = Marker(Current.messages[i].role)
                 /\ Cardinality(ToolSections(doc))
                       = (IF Current.tool_executions # <<>> THEN 1 ELSE 0)
                 /\ \A t \in ToolSections(doc), i \in DOMAIN doc :
                       IsHeading(doc[i]) => i < t]_vars


(***************************************************************************)
(* Claims about the application (Spec, SpecUI)                             *)
(***************************************************************************)

\* C30: in a run with save_history off, where start() is never called and
\* so no periodic thread exists, the AutoSaver writes no session document,
\* stop() at shutdown included.
C30_NoDocumentWhenDisabled ==
    Periodic = {} => Files = {}

\* The agent call of caller c raised: its execute ended with what
\* execute_async makes of an exception of agent.run.
AgentRaised(c) ==
    pc[c] = "raised" /\ result[c] \in {AgentFailed, Interrupted, Cancelled}

\* The entries of kind `kind` that the handling of input c added to the
\* history.
Shown(kind, c) ==
    {i \in DOMAIN history_messages :
        history_messages[i].kind = kind /\ history_messages[i].of = c}

\* C28: when the agent call of an input raises, the gate hands its caller
\* the agent error, the handling ends with an error entry in the history and
\* not with an exception that left _handle_input, no agent message is shown
\* or stored for it, and executing is false unless a later call is in flight.
C28_AgentErrorReported ==
    \A c \in Callers :
        AgentRaised(c) =>
            /\ result[c] = AgentFailed
            /\ task[c].at # "escaped"
            /\ task[c].at = "done" => Shown("error", c) # {}
            /\ Shown("agent", c) = {}
            /\ \A i \in DOMAIN Current.messages :
                  Current.messages[i].role = "agent"
                      => Current.messages[i].content # result[c]
            /\ InFlight = {} => ~executing

\* C29: every entry of the history was appended, and the status text was
\* assigned, by the thread that runs the UI loop.
C29_SinkOnUIThread ==
    /\ status_text[2] = UIThread
    /\ \A i \in DOMAIN history_messages : history_messages[i].by = UIThread

\* C31: no step of the AutoSaver (start, stop, the periodic thread, the
\* final save and the writes they make) changes a SessionState object or
\* the SessionManager's session_state attribute.
C31_SaverOnlyReads ==
    [][saverVars' # saverVars
         => UNCHANGED <<objs, session_state, mutator>>]_vars

\* A periodic save and the final save have both written a transcript that
\* is not empty.
C31_Witness ==
    /\ Current.messages # <<>>
    /\ \E t \in DOMAIN threads :
          threads[t].kind = "periodic" /\ threads[t].pc = "returned"
              /\ threads[t].ret # ReturnedNone
    /\ \E t \in DOMAIN threads :
          threads[t].kind = "final" /\ threads[t].pc = "returned"
              /\ threads[t].ret # ReturnedNone

\* C32: when ESC is pressed while an agent call is executing, interrupted
\* is true afterwards.
C32_EscInterrupts ==
    [][executing /\ handle_escape => interrupted']_vars

\* list[-n:] for 0 < n, and the empty list for n = 0
Last(list, n) ==
    SubSeq(list, Len(list) - (IF n < Len(list) THEN n ELSE Len(list)) + 1,
           Len(list))

\* C33: /history N shows the last N messages of the transcript, in the
\* order of the conversation.
C33_HistoryShowsLast ==
    [][\A n \in 0..MaxMessages :
          ret'.op = "/history" /\ cmd_history(<<n>>)
              => ret'.value = Rows(Last(Current.messages, n))]_vars

\* C34: the gate is called for an input only after its user message is in
\* the store, an agent message is in the store only for a call that has
\* returned a response, and the agent messages never outnumber the user
\* messages, whatever the inputs entered while a call is in flight.
C34_UserBeforeAgent ==
    /\ \A c \in Callers :
          pc[c] # "idle" => task[c].at \notin {"none", "created", "thread"}
    /\ Cardinality({c \in Callers : pc[c] # "idle"}) <= CountRole("user")
    /\ CountRole("agent") <= Cardinality({c \in Callers : pc[c] = "returned"})
    /\ CountRole("agent") <= CountRole("user")

\* One input has its answer in the store; another, entered while the first
\* call was in flight, was refused by the running loop.
C34_Witness ==
    \E c, b \in Callers :
        /\ task[c].at = "done" /\ pc[c] = "returned"
        /\ result[b] = LoopRunning
        /\ CountRole("agent") = 1 /\ CountRole("user") = 2

\* C35: a periodic thread takes its snapshot and begins a save only while
\* running is true, so that once stop() has been called (and start() not
\* again) no periodic thread begins a save.
C35_NoPeriodicSaveAfterStop ==
    [][\A t \in DOMAIN threads :
         (threads[t].kind = "periodic" /\ threads[t].pc = "snap"
            /\ threads'[t].pc = "auto_save") => running]_vars

\* C36: whatever the state before, reset() leaves executing and interrupted
\* false and the memory of an agent that has one empty; the agent, the event
\* loop and the calls in progress are what they were.
C36_ResetClears ==
    [][reset =>
          /\ ~executing' /\ ~interrupted'
          /\ has_memory => memory' = 0
          /\ UNCHANGED <<mode, has_memory, loop_closed, loop_thread, pc, arg,
                         result, runs>>]_vars

\* reset() was called while a call was in flight on an agent with a memory:
\* the call is still in flight, executing is false and the memory is empty.
C36_Witness ==
    /\ has_memory /\ memory = 0 /\ runs > 0
    /\ ~executing /\ ~interrupted
    /\ InFlight # {}

\* C37: at no instant are two threads between open() and the end of
\* json.dump on the same path, and so no file holds the output of two
\* writers.
C37_OneWriterPerPath ==
    \A t, u \in Saving(threads) :
        t # u => AutoPath(threads[t].doc) # AutoPath(threads[u].doc)

C39_StateNamesAgent ==
    /\ Current.current_agent = app.agent_session.agent_type
    /\ Current.current_model = app.agent_session.model


====
